---- MODULE Spec2Model ----
(***************************************************************************)
(* CalClick (src/main.py): a polling scheduler that drives a browser       *)
(* session through login, location selection and the start/stop toggle.    *)
(*                                                                         *)
(* Time is counted in whole minutes since Monday 00:00 of week 0.  A text  *)
(* (a label, a URL) is a sequence of words; "x in text" of the source is   *)
(* containment of a word sequence.  The portal and the browser are the     *)
(* environment: every lookup, read and click draws its outcome with \E.    *)
(***************************************************************************)
EXTENDS Integers, Sequences, FiniteSets, TLC

\* ------------------------------------------------------------------ bounds
\* number of shuffle outcomes the constructor draws from in Spec
NumShuffles == 2
\* number of jittered minute offsets schedule_tasks draws from in Spec
NumJitters == 2
\* minutes one routine invocation may take on the wall clock (0..MaxRoutineMinutes)
MaxRoutineMinutes == 1
\* number of days of running that Spec follows after the process start
MaxDays == 2

\* ------------------------------------------------------- program constants
MinutesPerDay == 24 * 60
DaysPerWeek == 7
\* the weekday field of a job registered with every().day
EveryDay == DaysPerWeek
OfficeDays == 3
MaxAttempts == 3
MorningHour == 8
EveningHour == 16
Variance == 30
MaxSeconds == 59
RegenAt == 1
ReschedAt == 0

\* -------------------------------------------------------------------- text
Lower(w) ==
    CASE w = "In" -> "in"
      [] w = "Home" -> "home"
      [] w = "Office" -> "office"
      [] w = "Login" -> "login"
      [] OTHER -> w

LowerText(text) == [i \in 1..Len(text) |-> Lower(text[i])]

\* Python's "needle in text" on lower-cased text, word by word
Contains(needle, text) ==
    \E i \in 0..(Len(text) - Len(needle)) :
        \A j \in 1..Len(needle) : text[i + j] = needle[j]

\* option texts of select_location and other labels the control may display
InTheOffice == <<"In", "the", "office">>
HomeOffice == <<"Home", "office">>
HomeOnly == <<"Home">>
Placeholder == <<"Select">>
Labels == {InTheOffice, HomeOffice, HomeOnly, Placeholder}

\* get_current_location's classification of a label text
Classify(text) ==
    LET t == LowerText(text) IN
    IF Contains(<<"office">>, t) \/ Contains(<<"in", "the", "office">>, t)
    THEN "office"
    ELSE IF Contains(<<"home">>, t) THEN "home" ELSE "None"

\* select_location's choice of the option text for a location
OptionText(location) ==
    IF Lower(location) = "office" THEN InTheOffice ELSE HomeOffice

PortalUrl == <<"panel", "login">>
Urls == {PortalUrl, <<"panel", "login", "error">>, <<"panel", "Login", "retry">>,
         <<"panel", "dashboard">>}

\* --------------------------------------------------- generate_weekly_schedule
Days == <<0, 1, 2, 3, 4, 5, 6>>

\* the list after random.shuffle, for a permutation p of 0..6
Shuffled(p) == [i \in 1..Len(Days) |-> p[Days[i]]]

GenerateWeeklySchedule(days) ==
    [d \in {days[i] : i \in 1..Len(days)} |->
        IF \E i \in 1..OfficeDays : days[i] = d THEN "office" ELSE "home"]

\* ------------------------------------------------------ calculate_random_time
\* (the offset added twice)
CalculateRandomTimeDoubled(base_hour, base_minute, offset, random_seconds) ==
    LET secs == (base_hour * 3600 + base_minute * 60 + random_seconds + 2 * offset * 60)
                    % (24 * 3600)
    IN <<secs \div 3600, (secs % 3600) \div 60, secs % 60>>

\* base_time.replace(hour, minute, second) + timedelta(minutes = offset),
\* formatted %H:%M:%S: <<hour, minute, second>> of the wall clock
CalculateRandomTime(base_hour, base_minute, offset, random_seconds) ==
    LET secs == (base_hour * 3600 + base_minute * 60 + random_seconds + offset * 60)
                    % (MinutesPerDay * 60)
    IN <<secs \div 3600, (secs % 3600) \div 60, secs % 60>>

\* time[:5]: the HH:MM part, as the minute of the day
HHMM(t) == t[1] * 60 + t[2]

\* ------------------------------------------------------ the schedule library
\* Job._schedule_next_run: the first time strictly after t that falls on
\* weekday `day` (any day for EveryDay) at minute `at` of the day
NextRun(day, at, t) ==
    LET d0 == t \div MinutesPerDay
        cand(k) == (d0 + k) * MinutesPerDay + at
        ks == {k \in 0..DaysPerWeek :
                 /\ cand(k) > t
                 /\ (day = EveryDay \/ (d0 + k) % DaysPerWeek = day)}
        k0 == CHOOSE k \in ks : \A m \in ks : k <= m
    IN cand(k0)

\* schedule.every().<day>.at(<at>).do(<fn>) at time t, by the call numbered gen
NewJob(fn, day, at, t, gen) ==
    [fn |-> fn, day |-> day, at |-> at, next_run |-> NextRun(day, at, t), gen |-> gen]

SameJob(a, b) == a.fn = b.fn /\ a.day = b.day /\ a.gen = b.gen

RECURSIVE InsertJob(_, _)
InsertJob(job, sorted) ==
    IF sorted = <<>> THEN <<job>>
    ELSE IF job.next_run < Head(sorted).next_run THEN <<job>> \o sorted
    ELSE <<Head(sorted)>> \o InsertJob(job, Tail(sorted))

RECURSIVE SortJobs(_)
\* sorted(): stable, by next_run (Job.__lt__)
SortJobs(seq) ==
    IF seq = <<>> THEN <<>>
    ELSE InsertJob(seq[Len(seq)], SortJobs(SubSeq(seq, 1, Len(seq) - 1)))

\* job.should_run
ShouldRun(job, t) == t >= job.next_run

RunnableJobs(js, t) == SortJobs(SelectSeq(js, LAMBDA j : ShouldRun(j, t)))

\* ------------------------------------------------------------------- state
VARIABLES
    now,              \* wall clock, minutes since Monday 00:00 of week 0
    jobs,             \* schedule's job list (the trigger table)
    runnable,         \* the jobs run_pending still has to run in this call
    generation,       \* number of schedule_tasks calls that have cleared the table
    weekly_schedule,  \* automation.weekly_schedule
    driver,           \* automation.driver: "None", or the state of the handle it names
    label,            \* text the portal's location control displays
    stack,            \* program positions, innermost call first
    ret,              \* return value of the last call that returned
    exc,              \* an exception is in flight through a finally block
    today,            \* local of the routines
    sl_location,      \* argument of select_location
    sl_attempts,      \* local of select_location
    cs_previous,      \* previous_location of click_start_work
    generated,        \* value the last generate_weekly_schedule call returned
    hist,             \* what the running routine invocation has done so far
    fn_in,            \* input of the pure function under check
    fn_out            \* its result

vars == <<now, jobs, runnable, generation, weekly_schedule, driver, label, stack,
          ret, exc, today, sl_location, sl_attempts, cs_previous, generated, hist,
          fn_in, fn_out>>

sched_vars == <<jobs, runnable, generation>>
local_vars == <<today, sl_location, sl_attempts, cs_previous>>
fn_vars == <<fn_in, fn_out>>

Weekday(t) == (t \div MinutesPerDay) % DaysPerWeek

NoHist ==
    [routine |-> "none", outcome |-> "idle", obtained |-> FALSE, closes |-> 0,
     staleUse |-> FALSE, login |-> "none", loginWhy |-> "none",
     loginForm |-> FALSE, loginUrl |-> <<>>, select |-> "none", toggle |-> "none", button |-> "none",
     startClicks |-> 0, stopClicks |-> 0, corrective |-> 0, correctiveArg |-> "None",
     labelReads |-> 0, lastRead |-> "None", matches |-> 0, optionClicks |-> 0, missing |-> FALSE, slResult |-> "none",
     slArg |-> "None", csPrevious |-> "None", csCurrent |-> "None", csBefore |-> <<>>, csAfter |-> <<>>, csDone |-> FALSE, weekday |-> 0]

Top == Head(stack)
Goto(p) == stack' = <<p>> \o Tail(stack)
Call(callee, cont) == stack' = <<callee, cont>> \o Tail(stack)
Return(value) == stack' = Tail(stack) /\ ret' = value

\* the samples of random.shuffle that Spec draws from: rotations of the week
ShuffleSamples ==
    {[d \in 0..(DaysPerWeek - 1) |-> (d + OfficeDays * k) % DaysPerWeek] :
        k \in 0..(NumShuffles - 1)}

\* the samples of random.randint(-variance, variance) that Spec draws from
JitterSamples ==
    {(0 - Variance) + k * ((2 * Variance) \div (NumJitters - 1)) : k \in 0..(NumJitters - 1)}

SecondSamples == {0, MaxSeconds}

\* the process starts on Sunday at 23:58
StartMinute == 6 * MinutesPerDay + 23 * 60 + 58
Horizon == StartMinute + MaxDays * MinutesPerDay

\* ------------------------------------------------------ get_current_location
\* the element is found and its text classified, or any exception gives None
GetCurrentLocation(found, text) == IF found THEN Classify(text) ELSE "None"

\* ------------------------------------------------------------------- login
\* (the test of line 212 without .lower())
LoginResultCaseSensitive(loaded, form, fields, url) ==
    /\ loaded
    /\ form
    /\ fields
    /\ url # PortalUrl
    /\ ~Contains(<<"login">>, url)

\* True iff the page loaded, the form rendered, the fields were found, the URL
\* left the entry URL within the wait and the new URL does not contain "login"
LoginResult(loaded, form, fields, url) ==
    /\ loaded
    /\ form
    /\ fields
    /\ url # PortalUrl
    /\ ~Contains(<<"login">>, LowerText(url))

\* which way login went: what the model records of a call
LoginCase(loaded, form, fields, url) ==
    IF ~loaded THEN "error"
    ELSE IF ~form THEN "timeout"
    ELSE IF ~fields THEN "error"
    ELSE IF url = PortalUrl THEN "timeout"
    ELSE IF Contains(<<"login">>, LowerText(url)) THEN "still-login"
    ELSE "ok"

\* "if not self.<stage>(): raise Exception(...)": on to the next stage, or to
\* the except block
NextStageAlways(ok, next, handler) == next

NextStage(ok, next, handler) == IF ok THEN next ELSE handler

\* ------------------------------------------------------------ setup_driver
\* "before": an exception before webdriver.Chrome returned (self.driver kept);
\* "ok"; "after": an exception from the timeout calls on the new handle
SetupOutcomes == {"before", "ok", "after"}

DriverAfterSetup(outcome) == IF outcome = "before" THEN driver ELSE "open"

\* lines 357-362 and 404-409: today, then setup_driver
RoutineSetup(name, at_login, at_except) ==
    \E outcome \in SetupOutcomes :
        /\ today' = Weekday(now)
        /\ driver' = DriverAfterSetup(outcome)
        /\ hist' = [NoHist EXCEPT !.routine = name, !.outcome = "running",
                                  !.obtained = (outcome # "before"),
                                  !.weekday = Weekday(now)]
        /\ label' = Placeholder
        /\ Goto(IF outcome = "ok" THEN at_login ELSE at_except)
        /\ UNCHANGED <<now, sched_vars, weekly_schedule, ret, exc,
                       sl_location, sl_attempts, cs_previous, generated, fn_vars>>

\* lines 365-369 and 412-416: login, which loads the portal page
RoutineLogin(at_next, at_except) ==
    \E loaded \in BOOLEAN, form \in BOOLEAN, fields \in BOOLEAN, url \in Urls,
       shown \in Labels :
        LET ok == LoginResult(loaded, form, fields, url) IN
        /\ label' = shown
        /\ hist' = [hist EXCEPT !.login = IF ok THEN "ok" ELSE "fail",
                                !.loginWhy = LoginCase(loaded, form, fields, url),
                                !.loginForm = (loaded /\ form),
                                !.loginUrl = IF loaded /\ form /\ fields
                                             THEN url ELSE <<>>]
        /\ Goto(NextStage(ok, at_next, at_except))
        /\ UNCHANGED <<now, sched_vars, weekly_schedule, driver, ret, exc,
                       local_vars, generated, fn_vars>>

\* self.driver.current_url: a closed session always raises, a live one may
UrlReadOutcomes == IF driver = "open" THEN {"ok", "raise"} ELSE {"raise"}

\* lines 387-397 and 425-435: the except block
RoutineExcept(at_finally) ==
    /\ IF driver # "None"
       THEN \E read \in UrlReadOutcomes, shot \in BOOLEAN :
               /\ exc' = (read = "raise")
               /\ hist' = [hist EXCEPT !.staleUse = (@ \/ ~hist.obtained)]
       ELSE exc' = FALSE /\ hist' = hist
    /\ Goto(at_finally)
    /\ UNCHANGED <<now, sched_vars, weekly_schedule, driver, label, ret,
                   local_vars, generated, fn_vars>>

\* what a propagating exception leaves of the call stack: nothing in main,
\* schedule_tasks or run_pending catches it
Unwind == <<"crashed">>

\* (a routine that quits only on its way out of the try body)
FinallyQuitsOnSuccess == driver # "None" /\ hist.toggle = "ok"

\* (a finally block that leaves the handle to the next routine)
FinallyQuitsNever == FALSE

\* lines 399 and 437: "if self.driver:"
FinallyQuits == driver # "None"

\* lines 398-400 and 436-438: the finally block, then return or re-raise
RoutineFinally ==
    \E d \in 0..MaxRoutineMinutes :
        /\ now' = now + d
        /\ driver' = IF FinallyQuits THEN "quit" ELSE driver
        /\ hist' = [hist EXCEPT
                      !.closes = IF FinallyQuits /\ hist.obtained THEN @ + 1 ELSE @,
                      !.staleUse = (@ \/ (FinallyQuits /\ ~hist.obtained)),
                      !.outcome = IF exc THEN "raised" ELSE "returned"]
        /\ stack' = IF exc THEN Unwind ELSE Tail(stack)
        /\ exc' = FALSE
        /\ today' = 0
        /\ ret' = FALSE
        /\ UNCHANGED <<sched_vars, weekly_schedule, label, sl_location, sl_attempts,
                       cs_previous, generated, fn_vars>>

\* ---------------------------------------------------------- select_location
LookupOutcomes == {"ok", "timeout", "error"}

\* a call of select_location(location) that continues at cont
CallSelectLocation(location, cont) ==
    /\ sl_location' = location
    /\ sl_attempts' = 0
    /\ Call("sl_dropdown", cont)

\* select_location returns value; its locals go out of scope
SlReturn(value) ==
    /\ Return(value)
    /\ sl_location' = "None"
    /\ sl_attempts' = 0

\* lines 298-325: open the dropdown, pick the option text, attempts = 0
SlDropdown ==
    /\ Top = "sl_dropdown"
    /\ \E found \in LookupOutcomes :
          /\ hist' = [hist EXCEPT !.labelReads = 0, !.lastRead = "None",
                                  !.matches = 0, !.optionClicks = 0,
                                  !.missing = (found # "ok"),
                                  !.slArg = sl_location,
                                  !.slResult = IF found = "ok" THEN "none" ELSE "fail"]
          /\ IF found = "ok"
             THEN Goto("sl_option") /\ UNCHANGED <<ret, sl_location, sl_attempts>>
             ELSE SlReturn(FALSE)
    /\ UNCHANGED <<now, sched_vars, weekly_schedule, driver, label, exc, today,
                   cs_previous, generated, fn_vars>>

\* (the loop test off by one)
LoopContinuesOnceMore(attempts) == attempts <= MaxAttempts

\* the loop test of line 326
LoopContinues(attempts) == attempts < MaxAttempts

\* (any location read counts as confirmation)
ReflectedAny(current, location) == current # "None"

\* the comparison of line 334
Reflected(current, location) == current = Lower(location)

\* lines 326-337 and 344-349: one pass of the loop up to the verification
SlOption ==
    /\ Top = "sl_option"
    /\ IF ~LoopContinues(sl_attempts)
       THEN /\ SlReturn(FALSE)
            /\ hist' = [hist EXCEPT !.slResult = "fail"]
            /\ UNCHANGED label
       ELSE \E found \in LookupOutcomes :
              IF found # "ok"
              THEN /\ SlReturn(FALSE)
                   /\ hist' = [hist EXCEPT !.missing = TRUE, !.slResult = "fail"]
                   /\ UNCHANGED label
              ELSE \E shown \in Labels, readable \in BOOLEAN :
                     LET current == GetCurrentLocation(readable, shown) IN
                     /\ label' = shown
                     /\ IF Reflected(current, sl_location)
                        THEN SlReturn(TRUE)
                        ELSE /\ Goto("sl_reopen")
                             /\ sl_attempts' = sl_attempts + 1
                             /\ UNCHANGED <<ret, sl_location>>
                     /\ hist' = [hist EXCEPT
                                   !.optionClicks = @ + 1,
                                   !.labelReads = @ + 1,
                                   !.lastRead = current,
                                   !.matches = IF current = Lower(sl_location)
                                               THEN @ + 1 ELSE @,
                                   !.slResult = IF Reflected(current, sl_location)
                                                THEN "ok" ELSE @]
    /\ UNCHANGED <<now, sched_vars, weekly_schedule, driver, exc, today,
                   cs_previous, generated, fn_vars>>

\* lines 338-346: reopen the dropdown before the next pass
SlReopen ==
    /\ Top = "sl_reopen"
    /\ \E found \in LookupOutcomes :
          IF found = "ok"
          THEN Goto("sl_option") /\ UNCHANGED <<ret, hist, sl_location, sl_attempts>>
          ELSE /\ SlReturn(FALSE)
               /\ hist' = [hist EXCEPT !.missing = TRUE, !.slResult = "fail"]
    /\ UNCHANGED <<now, sched_vars, weekly_schedule, driver, label, exc, today,
                   cs_previous, generated, fn_vars>>

\* --------------------------------------------------------- click_start_work
\* click_start_work returns value; its locals go out of scope
CsReturns(value) ==
    /\ Return(value)
    /\ cs_previous' = "None"

\* lines 229-236: previous_location
CsPre ==
    /\ Top = "cs_pre"
    /\ \E readable \in BOOLEAN :
          /\ cs_previous' = GetCurrentLocation(readable, label)
          /\ hist' = [hist EXCEPT !.csPrevious = cs_previous',
                                  !.csBefore = IF readable THEN label ELSE <<>>]
    /\ Goto("cs_click")
    /\ UNCHANGED <<now, sched_vars, weekly_schedule, driver, label, ret, exc, today,
                   sl_location, sl_attempts, generated, fn_vars>>

\* what a bounded wait can find of a button
ButtonState(present, interactable) ==
    IF ~present THEN "absent" ELSE IF interactable THEN "interactable" ELSE "present"

\* lines 239-244 and 257-263: wait until the button is clickable, click it
CsClick ==
    /\ Top = "cs_click"
    /\ \E present \in BOOLEAN, interactable \in BOOLEAN, shown \in Labels :
          IF present /\ interactable
          THEN /\ label' = shown
               /\ hist' = [hist EXCEPT !.startClicks = @ + 1,
                                       !.button = ButtonState(present, interactable)]
               /\ Goto("cs_post")
               /\ UNCHANGED <<ret, cs_previous>>
          ELSE /\ CsReturns(FALSE)
               /\ hist' = [hist EXCEPT !.button = ButtonState(present, interactable)]
               /\ UNCHANGED label
    /\ UNCHANGED <<now, sched_vars, weekly_schedule, driver, exc, today,
                   sl_location, sl_attempts, generated, fn_vars>>

\* the test of line 249
LocationChanged(previous, current) == previous # "None" /\ current # previous

\* lines 246-253: re-read the location, reapply the previous one if it changed
CsPost ==
    /\ Top = "cs_post"
    /\ \E readable \in BOOLEAN :
          LET current == GetCurrentLocation(readable, label) IN
          IF LocationChanged(cs_previous, current)
          THEN /\ CallSelectLocation(cs_previous, "cs_return")
               /\ hist' = [hist EXCEPT !.csCurrent = current, !.csDone = TRUE,
                                       !.csAfter = IF readable THEN label ELSE <<>>,
                                       !.corrective = @ + 1,
                                       !.correctiveArg = cs_previous]
               /\ UNCHANGED <<ret, cs_previous>>
          ELSE /\ CsReturns(TRUE)
               /\ hist' = [hist EXCEPT !.csCurrent = current, !.csDone = TRUE,
                                       !.csAfter = IF readable THEN label ELSE <<>>]
               /\ UNCHANGED <<sl_location, sl_attempts>>
    /\ UNCHANGED <<now, sched_vars, weekly_schedule, driver, label, exc, today,
                   generated, fn_vars>>

\* line 255: return True, whatever the corrective select_location returned
CsReturn ==
    /\ Top = "cs_return"
    /\ CsReturns(TRUE)
    /\ UNCHANGED <<now, sched_vars, weekly_schedule, driver, label, exc, today,
                   sl_location, sl_attempts, generated, hist, fn_vars>>

\* ----------------------------------------------------------- morning_routine
MorningSetup == Top = "mr_setup" /\ RoutineSetup("morning", "mr_login", "mr_except")

MorningLogin == Top = "mr_login" /\ RoutineLogin("mr_select", "mr_except")

\* lines 371-374: today's planned location, then select_location
MorningSelect ==
    /\ Top = "mr_select"
    /\ IF today \in DOMAIN weekly_schedule
       THEN CallSelectLocation(weekly_schedule[today], "mr_selected")
       ELSE Goto("mr_except") /\ UNCHANGED <<sl_location, sl_attempts>>
    /\ UNCHANGED <<now, sched_vars, weekly_schedule, driver, label, ret, exc, today,
                   cs_previous, generated, hist, fn_vars>>

\* lines 374-378: raise unless select_location returned True
MorningSelected ==
    /\ Top = "mr_selected"
    /\ hist' = [hist EXCEPT !.select = IF ret THEN "ok" ELSE "fail"]
    /\ Goto(NextStage(ret, "mr_start", "mr_except"))
    /\ ret' = FALSE
    /\ UNCHANGED <<now, sched_vars, weekly_schedule, driver, label, exc,
                   local_vars, generated, fn_vars>>

\* line 380: click_start_work
MorningStart ==
    /\ Top = "mr_start"
    /\ Call("cs_pre", "mr_started")
    /\ UNCHANGED <<now, sched_vars, weekly_schedule, driver, label, ret, exc,
                   local_vars, generated, hist, fn_vars>>

\* lines 380-385: raise unless click_start_work returned True
MorningStarted ==
    /\ Top = "mr_started"
    /\ hist' = [hist EXCEPT !.toggle = IF ret THEN "ok" ELSE "fail"]
    /\ Goto(NextStage(ret, "mr_finally", "mr_except"))
    /\ ret' = FALSE
    /\ UNCHANGED <<now, sched_vars, weekly_schedule, driver, label, exc,
                   local_vars, generated, fn_vars>>

MorningExcept == Top = "mr_except" /\ RoutineExcept("mr_finally")

MorningFinally == Top = "mr_finally" /\ RoutineFinally

\* ----------------------------------------------------------- evening_routine
EveningSetup == Top = "er_setup" /\ RoutineSetup("evening", "er_login", "er_except")

EveningLogin == Top = "er_login" /\ RoutineLogin("er_stop", "er_except")

\* lines 418-423 with click_stop_work (265-290): the button is waited for until
\* present, then clicked; a click on a button that is not interactable raises
\* (an element that cannot receive it) or passes unnoticed (a disabled button)
EveningStop ==
    /\ Top = "er_stop"
    /\ \E present \in BOOLEAN, interactable \in BOOLEAN, raises \in BOOLEAN :
          LET clicked == present /\ (interactable \/ ~raises) IN
          /\ hist' = [hist EXCEPT !.stopClicks = IF present THEN @ + 1 ELSE @,
                                  !.button = ButtonState(present, interactable),
                                  !.toggle = IF clicked THEN "ok" ELSE "fail"]
          /\ Goto(NextStage(clicked, "er_finally", "er_except"))
    /\ UNCHANGED <<now, sched_vars, weekly_schedule, driver, label, ret, exc,
                   local_vars, generated, fn_vars>>

EveningExcept == Top = "er_except" /\ RoutineExcept("er_finally")

EveningFinally == Top = "er_finally" /\ RoutineFinally

\* ------------------------------------------------------------ schedule_tasks
Weekdays == <<0, 1, 2, 3, 4>>

\* lines 487-498: the ten weekday registrations, mornings first
RoutineJobs(morning_at, evening_at, t, gen) ==
    [i \in 1..Len(Weekdays) |-> NewJob("morning", Weekdays[i], morning_at, t, gen)]
    \o [i \in 1..Len(Weekdays) |-> NewJob("evening", Weekdays[i], evening_at, t, gen)]

\* line 474: schedule.clear()
Cleared(js) == <<>>

\* lines 474-498: clear the table, draw the two times, register the routines
StRegister ==
    /\ Top = "st_register"
    /\ \E mo \in JitterSamples, ms \in SecondSamples,
          eo \in JitterSamples, es \in SecondSamples :
          LET morning_time == CalculateRandomTime(MorningHour, 0, mo, ms)
              evening_time == CalculateRandomTime(EveningHour, 0, eo, es)
          IN jobs' = Cleared(jobs)
                       \o RoutineJobs(HHMM(morning_time), HHMM(evening_time),
                                      now, generation + 1)
    /\ generation' = generation + 1
    /\ Goto("st_morning")
    /\ hist' = NoHist
    /\ UNCHANGED <<now, runnable, weekly_schedule, driver, label, ret, exc,
                   local_vars, generated, fn_vars>>

\* line 501: automation.morning_routine()
StMorning ==
    /\ Top = "st_morning"
    /\ Call("mr_setup", "st_evening")
    /\ UNCHANGED <<now, sched_vars, weekly_schedule, driver, label, ret, exc,
                   local_vars, generated, hist, fn_vars>>

\* line 502: automation.evening_routine()
StEvening ==
    /\ Top = "st_evening"
    /\ Call("er_setup", "st_maintenance")
    /\ UNCHANGED <<now, sched_vars, weekly_schedule, driver, label, ret, exc,
                   local_vars, generated, hist, fn_vars>>

\* lines 505-508: the weekly regeneration and the midnight self-reschedule
MaintenanceJobs(t, gen) ==
    <<NewJob("regenerate", 0, RegenAt, t, gen),
      NewJob("reschedule", EveryDay, ReschedAt, t, gen)>>

StMaintenance ==
    /\ Top = "st_maintenance"
    /\ jobs' = jobs \o MaintenanceJobs(now, generation)
    /\ stack' = Tail(stack)
    /\ hist' = NoHist
    /\ label' = Placeholder
    /\ UNCHANGED <<now, runnable, generation, weekly_schedule, driver, ret,
                   exc, local_vars, generated, fn_vars>>

\* ---------------------------------------------------------------------- main
\* line 523: the initial schedule_tasks(automation)
MainScheduleTasks ==
    /\ Top = "main_schedule"
    /\ Call("st_register", "main_run_pending")
    /\ UNCHANGED <<now, sched_vars, weekly_schedule, driver, label, ret, exc,
                   local_vars, generated, hist, fn_vars>>

\* line 530, schedule.run_pending(): the due jobs, sorted, are run one by one
RunPending ==
    /\ Top = "main_run_pending"
    /\ runnable' = RunnableJobs(jobs, now)
    /\ Goto("rp_next")
    /\ UNCHANGED <<now, jobs, generation, weekly_schedule, driver, label, ret, exc,
                   local_vars, generated, hist, fn_vars>>

NextJobIs(fn) == Top = "rp_next" /\ runnable # <<>> /\ Head(runnable).fn = fn

\* job.run() of a morning trigger
RunMorningJob ==
    /\ NextJobIs("morning")
    /\ Call("mr_setup", "rp_after")
    /\ UNCHANGED <<now, sched_vars, weekly_schedule, driver, label, ret, exc,
                   local_vars, generated, hist, fn_vars>>

\* job.run() of an evening trigger
RunEveningJob ==
    /\ NextJobIs("evening")
    /\ Call("er_setup", "rp_after")
    /\ UNCHANGED <<now, sched_vars, weekly_schedule, driver, label, ret, exc,
                   local_vars, generated, hist, fn_vars>>

\* what the lambda of line 505 does with the plan generate_weekly_schedule returns
PlanAfterRegeneration(plan) == weekly_schedule

\* job.run() of the weekly trigger: lambda: automation.generate_weekly_schedule()
RunRegenerateJob ==
    /\ NextJobIs("regenerate")
    /\ \E p \in ShuffleSamples :
          /\ generated' = GenerateWeeklySchedule(Shuffled(p))
          /\ weekly_schedule' = PlanAfterRegeneration(generated')
    /\ Goto("rp_after")
    /\ UNCHANGED <<now, sched_vars, driver, label, ret, exc, local_vars, hist, fn_vars>>

\* job.run() of the midnight trigger: lambda: schedule_tasks(automation)
RunRescheduleJob ==
    /\ NextJobIs("reschedule")
    /\ Call("st_register", "rp_after")
    /\ UNCHANGED <<now, sched_vars, weekly_schedule, driver, label, ret, exc,
                   local_vars, generated, hist, fn_vars>>

\* the rest of job.run(): the job object computes its next run; the table shows
\* it only if the job is still registered
RpAfter ==
    /\ Top = "rp_after"
    /\ LET job == Head(runnable) IN
       jobs' = [i \in 1..Len(jobs) |->
                  IF SameJob(jobs[i], job)
                  THEN [jobs[i] EXCEPT !.next_run = NextRun(job.day, job.at, now)]
                  ELSE jobs[i]]
    /\ runnable' = Tail(runnable)
    /\ hist' = NoHist
    /\ label' = Placeholder
    /\ Goto("rp_next")
    /\ UNCHANGED <<now, generation, weekly_schedule, driver, ret, exc,
                   local_vars, generated, fn_vars>>

\* run_pending returns
RpDone ==
    /\ Top = "rp_next"
    /\ runnable = <<>>
    /\ Goto("main_sleep")
    /\ UNCHANGED <<now, sched_vars, weekly_schedule, driver, label, ret, exc,
                   local_vars, generated, hist, fn_vars>>

\* the minute of the next poll that finds a job due: polls that find nothing
\* due change nothing but the clock
NextPoll(t, js) ==
    LET due == {js[i].next_run : i \in 1..Len(js)}
        first == CHOOSE u \in due : \A v \in due : u <= v
    IN IF js = <<>> \/ first <= t THEN t + 1 ELSE first

\* line 531: time.sleep(60)
Sleep ==
    /\ Top = "main_sleep"
    /\ now' = NextPoll(now, jobs)
    /\ now' <= Horizon
    /\ Goto("main_run_pending")
    /\ UNCHANGED <<sched_vars, weekly_schedule, driver, label, ret, exc,
                   local_vars, generated, hist, fn_vars>>

\* ------------------------------------------------------- KeyboardInterrupt
MorningFrames == {"mr_setup", "mr_login", "mr_select", "mr_selected", "mr_start",
                  "mr_started", "mr_except", "mr_finally"}
EveningFrames == {"er_setup", "er_login", "er_stop", "er_except", "er_finally"}
RoutineFrames == MorningFrames \cup EveningFrames

\* frames of morning_routine and evening_routine on the call stack
RoutineDepth == Cardinality({i \in 1..Len(stack) : stack[i] \in RoutineFrames})

\* the process has ended: by an exception, by the handler of line 532, or by a
\* KeyboardInterrupt that nothing caught
Ended == Top \in {"crashed", "shutdown", "interrupted", "function"}

\* lines 528-532: the interrupt arrives inside the try statement of main
InTry ==
    \/ stack[Len(stack)] \in {"rp_next", "rp_after", "main_sleep"}
    \/ stack = <<"main_run_pending">>

\* program points where an interrupt may pass by the quit() of the finally
\* block: before the try statement is entered (lines 357-359, 404-406) and
\* inside the finally block itself
QuitMayBeSkipped == Top \in {"mr_setup", "er_setup", "mr_finally", "er_finally"}

\* the handle after the finally block of an interrupted routine: "except
\* Exception" does not catch KeyboardInterrupt, so the finally block is next
DriverAfterUnwind(quits) ==
    IF RoutineDepth > 0 /\ driver # "None" /\ quits THEN "quit" ELSE driver

\* line 441-444: cleanup() quits whatever self.driver names
DriverAfterCleanup(d) == IF d # "None" THEN "quit" ELSE d

\* a KeyboardInterrupt at the current program point: the routine on the stack,
\* if any, unwinds through its finally block; then lines 532-534 if the
\* interrupt arrived inside the try statement, and the end of the process if not
KeyboardInterrupt ==
    /\ ~Ended
    /\ \E quits \in (IF QuitMayBeSkipped THEN BOOLEAN ELSE {TRUE}) :
          LET unwound == DriverAfterUnwind(quits) IN
          /\ driver' = IF InTry THEN DriverAfterCleanup(unwound) ELSE unwound
          /\ hist' = [hist EXCEPT
                        !.outcome = IF @ = "running" THEN "interrupted" ELSE @,
                        !.staleUse = (@ \/ (InTry /\ unwound = "quit"))]
    /\ stack' = IF InTry THEN <<"shutdown">> ELSE <<"interrupted">>
    /\ ret' = FALSE
    /\ exc' = FALSE
    /\ today' = 0
    /\ sl_location' = "None"
    /\ sl_attempts' = 0
    /\ cs_previous' = "None"
    /\ UNCHANGED <<now, sched_vars, weekly_schedule, label, generated, fn_vars>>

\* ------------------------------------------------------------ specification
\* lines 520 and 59-63: the controller after construction, before line 523
Init ==
    /\ now = StartMinute
    /\ jobs = <<>>
    /\ runnable = <<>>
    /\ generation = 0
    /\ \E p \in ShuffleSamples : weekly_schedule = GenerateWeeklySchedule(Shuffled(p))
    /\ generated = weekly_schedule
    /\ driver = "None"
    /\ label = Placeholder
    /\ stack = <<"main_schedule">>
    /\ ret = FALSE
    /\ exc = FALSE
    /\ today = 0
    /\ sl_location = "None"
    /\ sl_attempts = 0
    /\ cs_previous = "None"
    /\ hist = NoHist
    /\ fn_in = <<>>
    /\ fn_out = <<>>

Next ==
    \/ MainScheduleTasks
    \/ StRegister
    \/ StMorning
    \/ StEvening
    \/ StMaintenance
    \/ RunPending
    \/ RunMorningJob
    \/ RunEveningJob
    \/ RunRegenerateJob
    \/ RunRescheduleJob
    \/ RpAfter
    \/ RpDone
    \/ Sleep
    \/ MorningSetup
    \/ MorningLogin
    \/ MorningSelect
    \/ MorningSelected
    \/ MorningStart
    \/ MorningStarted
    \/ MorningExcept
    \/ MorningFinally
    \/ EveningSetup
    \/ EveningLogin
    \/ EveningStop
    \/ EveningExcept
    \/ EveningFinally
    \/ SlDropdown
    \/ SlOption
    \/ SlReopen
    \/ CsPre
    \/ CsClick
    \/ CsPost
    \/ CsReturn
    \/ KeyboardInterrupt

Spec == Init /\ [][Next]_vars

\* ------------------------------------- specifications of the pure functions
\* everything but fn_in and fn_out, at rest
AtRest ==
    /\ now = StartMinute
    /\ jobs = <<>>
    /\ runnable = <<>>
    /\ generation = 0
    /\ weekly_schedule = GenerateWeeklySchedule(Days)
    /\ generated = weekly_schedule
    /\ driver = "None"
    /\ label = Placeholder
    /\ stack = <<"function">>
    /\ ret = FALSE
    /\ exc = FALSE
    /\ today = 0
    /\ sl_location = "None"
    /\ sl_attempts = 0
    /\ cs_previous = "None"
    /\ hist = NoHist

rest_vars == <<now, jobs, runnable, generation, weekly_schedule, generated, driver,
               label, stack, ret, exc, today, sl_location, sl_attempts, cs_previous,
               hist>>

\* every outcome of random.shuffle(days)
InitPlan ==
    /\ AtRest
    /\ fn_in \in Permutations(0..(DaysPerWeek - 1))
    /\ fn_out = <<>>

\* lines 70-82: generate_weekly_schedule on the shuffled list
ApplyGenerateWeeklySchedule ==
    /\ fn_out = <<>>
    /\ fn_out' = GenerateWeeklySchedule(Shuffled(fn_in))
    /\ UNCHANGED <<fn_in, rest_vars>>

SpecPlan == InitPlan /\ [][ApplyGenerateWeeklySchedule]_vars

\* every outcome of the two random.randint calls, for the two calls of lines 477-478
InitTime ==
    /\ AtRest
    /\ fn_in \in [hour : {MorningHour, EveningHour},
                  offset : (0 - Variance)..Variance,
                  seconds : 0..MaxSeconds]
    /\ fn_out = <<>>

\* lines 460-468: calculate_random_time(hour, 0, 30)
ApplyCalculateRandomTime ==
    /\ fn_out = <<>>
    /\ fn_out' = CalculateRandomTime(fn_in.hour, 0, fn_in.offset, fn_in.seconds)
    /\ UNCHANGED <<fn_in, rest_vars>>

SpecTime == InitTime /\ [][ApplyCalculateRandomTime]_vars

\* ------------------------------------------------------------------- claims
Over == hist.outcome \in {"returned", "raised"}

OnStack(frames) == \E i \in 1..Len(stack) : stack[i] \in frames

InSelectLocation == OnStack({"sl_dropdown", "sl_option", "sl_reopen"})
InClickStartWork == OnStack({"cs_pre", "cs_click", "cs_post", "cs_return"})
InScheduleTasks == OnStack({"st_register", "st_morning", "st_evening", "st_maintenance"})

\* C1: no exception leaves morning_routine or evening_routine, whatever fails
\* inside it: every invocation returns normally to its caller.
RoutineNeverRaises == hist.outcome # "raised"

\* C2: a routine invocation that obtained a browser handle has closed that
\* handle exactly once when it is over, and not before, whatever its outcome.
HandleClosedExactlyOnce ==
    hist.obtained =>
        /\ hist.closes = (IF Over THEN 1 ELSE 0)
        /\ Over => driver = "quit"

\* C2 witness: login timed out (the URL never changed), the routine is over
\* and its handle was closed once.
ClosedOnceAfterLoginTimeout ==
    /\ hist.outcome = "returned"
    /\ hist.obtained
    /\ hist.loginWhy = "timeout"
    /\ hist.closes = 1

\* C3: the stages run in order and each starts only after every earlier one
\* succeeded: select_location only after a successful login, the start click
\* only after a successful login and a successful location selection, the stop
\* click only after a successful login.
StagesShortCircuit ==
    /\ InSelectLocation => hist.login = "ok"
    /\ hist.select # "none" => hist.login = "ok"
    /\ InClickStartWork => hist.login = "ok" /\ hist.select = "ok"
    /\ hist.startClicks > 0 => hist.login = "ok" /\ hist.select = "ok"
    /\ hist.stopClicks > 0 => hist.routine = "evening" /\ hist.login = "ok"
    /\ hist.routine = "evening" => hist.startClicks = 0 /\ hist.select = "none"
    /\ hist.toggle # "none" => hist.login = "ok"

\* C3 witness: a morning routine whose location selection failed is over, and
\* the start button was not clicked.
SelectFailedNoStart ==
    /\ hist.routine = "morning"
    /\ hist.outcome = "returned"
    /\ hist.login = "ok"
    /\ hist.select = "fail"
    /\ hist.startClicks = 0

\* C4 as claimed: whenever select_location fails after reads of which none
\* reported the requested location, it has made exactly 3 option clicks and 3
\* label reads.
ExactlyThreeAttemptsOnMismatch ==
    (hist.slResult = "fail" /\ hist.labelReads >= 1 /\ hist.matches = 0) =>
        hist.optionClicks = MaxAttempts /\ hist.labelReads = MaxAttempts

\* C4 as amended: select_location never makes a 4th attempt; when it fails and
\* every lookup of the dropdown and of the option succeeded, it has made exactly
\* 3 option clicks and 3 label reads; and a morning routine whose location
\* selection failed ends without a start click.
ThreeAttemptsWhenLookupsSucceed ==
    /\ hist.optionClicks <= MaxAttempts
    /\ hist.labelReads <= MaxAttempts
    /\ sl_attempts <= MaxAttempts
    /\ (hist.slResult = "fail" /\ ~hist.missing) =>
           hist.optionClicks = MaxAttempts /\ hist.labelReads = MaxAttempts
    /\ hist.select = "fail" => hist.startClicks = 0 /\ hist.toggle = "none"

\* C4 witness: the morning routine is over as Failed(location-select) after 3
\* clicks and 3 reads with every lookup found.
FailedAfterThreeAttempts ==
    /\ hist.outcome = "returned"
    /\ hist.select = "fail"
    /\ ~hist.missing
    /\ hist.optionClicks = MaxAttempts
    /\ hist.labelReads = MaxAttempts
    /\ hist.startClicks = 0

\* C5: select_location reports success exactly when a verification read
\* classified to the requested tag; that read is then the last one, the only
\* matching one and one of the first three; and with every lookup found, failure
\* comes only after three reads that did not match.
SuccessIffReadMatches ==
    /\ (hist.slResult = "ok") <=> (hist.matches >= 1)
    /\ hist.slResult = "ok" =>
           /\ hist.matches = 1
           /\ hist.lastRead = Lower(hist.slArg)
           /\ hist.labelReads \in 1..MaxAttempts
           /\ ~hist.missing
    /\ (hist.slResult = "fail" /\ ~hist.missing) => hist.labelReads = MaxAttempts
    /\ (hist.select = "ok" /\ hist.corrective = 0) => hist.slResult = "ok"

\* C5 witness: wrong on reads 1 and 2, correct on read 3, success.
SuccessOnThirdRead ==
    /\ hist.slResult = "ok"
    /\ hist.labelReads = MaxAttempts
    /\ hist.select = "ok"

\* C6: when the control shows one option's text at the read before the start
\* click and the other option's text at the read after it, click_start_work has
\* issued exactly one corrective select_location call, with the pre-click
\* location; when it shows the same text, none.
CorrectiveCallOnFlip ==
    \A before \in {"office", "home"}, after \in {"office", "home"} :
        (hist.csDone /\ hist.csBefore = OptionText(before)
                     /\ hist.csAfter = OptionText(after)) =>
            IF before # after
            THEN hist.corrective = 1 /\ hist.correctiveArg = before
            ELSE hist.corrective = 0

CountJobs(fn, day) ==
    Cardinality({i \in 1..Len(jobs) : jobs[i].fn = fn /\ jobs[i].day = day})

ExactTable ==
    /\ \A i \in 1..Len(Weekdays) :
          CountJobs("morning", Weekdays[i]) = 1 /\ CountJobs("evening", Weekdays[i]) = 1
    /\ CountJobs("regenerate", 0) = 1
    /\ CountJobs("reschedule", EveryDay) = 1
    /\ Len(jobs) = 2 * Len(Weekdays) + 2

\* C7: once schedule_tasks has been called and is not executing, the trigger
\* table holds exactly one morning and one evening trigger per weekday
\* Monday..Friday, one weekly-regeneration and one self-reschedule trigger.
TableExactAfterScheduleTasks ==
    (generation >= 1 /\ ~InScheduleTasks) => ExactTable

\* C8: the plan generate_weekly_schedule returns is over the weekdays 0..4, with
\* exactly 3 office days and exactly 2 home days.
PlanIsThreeOfficeTwoHome ==
    fn_out # <<>> =>
        /\ DOMAIN fn_out = 0..4
        /\ Cardinality({d \in DOMAIN fn_out : fn_out[d] = "office"}) = 3
        /\ Cardinality({d \in DOMAIN fn_out : fn_out[d] = "home"}) = 2

\* C9: when the weekly-regeneration trigger has fired, the controller's weekly
\* plan is the plan generate_weekly_schedule has just returned.
PlanReplacedOnRegeneration ==
    (Top = "rp_after" /\ Head(runnable).fn = "regenerate") =>
        weekly_schedule = generated

SecondsFromBase(t, hour) == t[1] * 3600 + t[2] * 60 + t[3] - hour * 3600

Abs(x) == IF x < 0 THEN 0 - x ELSE x

InterruptShutsDownCleanly ==
    /\ Top # "interrupted"
    /\ Top \in {"shutdown", "interrupted"} => driver # "open"

LoginSuccessIff ==
    hist.login # "none" =>
        /\ (hist.login = "ok") <=>
               /\ hist.loginForm
               /\ hist.loginUrl # <<>>
               /\ hist.loginUrl # PortalUrl
               /\ \A i \in 1..Len(hist.loginUrl) : Lower(hist.loginUrl[i]) # "login"
        /\ hist.loginWhy \in {"timeout", "still-login"} => hist.login = "fail"
        /\ hist.login = "fail" => hist.select = "none" /\ hist.toggle = "none"

\* C13 witness: the form rendered and the URL changed, to an address that still
\* holds "Login" in capitals; login failed and the routine is over.
StillOnLoginPage ==
    /\ hist.login = "fail"
    /\ hist.loginForm
    /\ hist.loginUrl = <<"panel", "Login", "retry">>
    /\ hist.loginWhy = "still-login"
    /\ hist.outcome = "returned"

\* C14: when the control displays the option text select_location clicks for a
\* tag and the verification read finds the element, the read classifies the
\* label back to that tag.
SelectThenReadRoundTrips ==
    (/\ Top \in {"sl_reopen", "mr_selected", "cs_return"}
     /\ hist.labelReads >= 1
     /\ hist.lastRead # "None"
     /\ label = OptionText(hist.slArg)) =>
        hist.lastRead = Lower(hist.slArg)

\* C15: no operation on a browser handle (URL read, screenshot, quit) targets a
\* handle that an earlier routine invocation created or that is already closed.
NoStaleHandleUse == ~hist.staleUse

\* C16: schedule_tasks executes no routine and opens no browser session: no
\* routine is on the call stack above a schedule_tasks frame, and a routine
\* runs only as the body of its own trigger.
ScheduleTasksRunsNoRoutine ==
    /\ InScheduleTasks => RoutineDepth = 0 /\ driver # "open"
    /\ RoutineDepth > 0 =>
           /\ stack[Len(stack)] = "rp_after"
           /\ Head(runnable).fn = hist.routine

\* the control displays an option text (or label) of the given location
Shows(text, location) ==
    IF location = "office" THEN text = InTheOffice ELSE text \in {HomeOffice, HomeOnly}

\* C17: when morning_routine has ended as a success, the location control shows
\* the location planned for that day.
SuccessShowsPlannedLocation ==
    (/\ hist.routine = "morning"
     /\ hist.outcome = "returned"
     /\ hist.toggle = "ok") =>
        Shows(label, weekly_schedule[hist.weekday])

\* C18: the start and the stop button are clicked only after the wait has
\* observed the button interactable; when the button is absent, or present but
\* not interactable, no click is attempted and the toggle stage fails.
ClickOnlyWhenInteractable ==
    /\ (hist.startClicks > 0 \/ hist.stopClicks > 0) => hist.button = "interactable"
    /\ hist.button \in {"absent", "present"} =>
           /\ hist.startClicks = 0
           /\ hist.stopClicks = 0
           /\ hist.toggle \in {"none", "fail"}

\* C19: no routine starts, and no start or stop button is clicked, on a
\* Saturday or a Sunday.
RoutinesOnlyOnBusinessDays ==
    hist.routine # "none" => hist.weekday \in {Weekdays[i] : i \in 1..Len(Weekdays)}

\* first minute of the day that minute t falls on
Midnight(t) == (t \div MinutesPerDay) * MinutesPerDay

\* C20: when the self-reschedule of a Monday midnight has rebuilt the table, the
\* weekly regeneration of that Monday is still to come: its job waits in the
\* current run_pending pass, or its new trigger is due on that same Monday.
RegenerationFiresOnMonday ==
    (/\ Top = "rp_after"
     /\ Head(runnable).fn = "reschedule"
     /\ Weekday(now) = 0
     /\ Head(runnable).next_run = Midnight(now)) =>
        \/ \E i \in 2..Len(runnable) : runnable[i].fn = "regenerate"
        \/ \E i \in 1..Len(jobs) :
              /\ jobs[i].fn = "regenerate"
              /\ jobs[i].next_run < Midnight(now) + MinutesPerDay

\* the schedule_tasks call of a midnight self-reschedule trigger has just ended
MidnightRebuildDone == Top = "rp_after" /\ Head(runnable).fn = "reschedule"

\* C21: on every calendar day the process runs, the midnight self-reschedule
\* trigger fires exactly once (while the loop sleeps, one schedule_tasks call
\* per midnight passed since the start, after the initial one); its
\* schedule_tasks call always completes; and the table it leaves holds only
\* triggers of that call, among them one self-reschedule trigger due at the
\* following midnight.
MidnightRebuildEveryDay ==
    /\ Top = "main_sleep" =>
           generation - 1 = (now \div MinutesPerDay) - (StartMinute \div MinutesPerDay)
    /\ ~(/\ Top = "crashed"
         /\ runnable # <<>>
         /\ Head(runnable).fn = "reschedule"
         /\ CountJobs("reschedule", EveryDay) = 0)
    /\ MidnightRebuildDone =>
           /\ ExactTable
           /\ \A i \in 1..Len(jobs) : jobs[i].gen = generation
           /\ \E i \in 1..Len(jobs) :
                 /\ jobs[i].fn = "reschedule"
                 /\ jobs[i].next_run = Midnight(now) + MinutesPerDay

====
